---- MODULE Spec2Model ----
(***************************************************************************)
(* Model of kats/data/utils.py: the bundled-resource loader, the           *)
(* air-passengers accessor and the two synthetic generators, together with *)
(* the process-wide numpy random generator the generators share.           *)
(*                                                                         *)
(* Numbers.  Floating-point values are fixed-point integers in units of    *)
(* 1/Scale, rounded (towards minus infinity) after every multiplication,   *)
(* as a float is rounded after every operation.  Integers stay integers.   *)
(*                                                                         *)
(* Random generator.  numpy's legacy global RandomState is a deterministic *)
(* word generator plus the cached second value of the polar gauss method.  *)
(* The word generator (MT19937 in numpy) is a 16-bit linear congruential   *)
(* generator here; everything built on top of it follows numpy's legacy    *)
(* algorithms: randint is masked rejection sampling over the words (no     *)
(* word is drawn for a range of one value, an empty range raises           *)
(* ValueError), randn is polar Box-Muller with a cached second value, and  *)
(* seed() sets the word state from the seed and clears the cache.          *)
(***************************************************************************)
EXTENDS Integers, Sequences, FiniteSets, TLC

VARIABLES
    rng,      \* the process-wide generator: [s, has_gauss, gauss]
    last,     \* record of the most recent call (NoCall before the first)
    memo,     \* record of one earlier call, kept for comparison (or NoCall)
    ncalls,   \* number of calls made so far
    cwd,      \* TRUE iff "kats" occurs in the lower-cased working directory
    bundle,   \* the package's bundled data: resource path -> content
    reads     \* number of resource reads performed by the most recent call

vars == <<rng, last, memo, ncalls, cwd, bundle, reads>>

----------------------------------------------------------------------------
(* Bounds of the model *)

\* longest timestamp sequence in call sequences
MaxN == 3
\* largest number of dimensions
MaxDim == 2
\* longest sequence of generator calls
MaxCalls == 2
\* longest sequence of accessor calls
MaxLoads == 2
\* longest timestamp sequence of a single call
MaxLen == 10
\* generator word states the process may start in: 0..MaxStart
MaxStart == 1
\* most rows of a bundled CSV
MaxRows == 2
\* most columns of a bundled CSV
MaxCols == 3

\* the default of the seasonality argument, 0.00
DefaultSeasonality == 0
\* the default of the change_smoothness argument, 5.0
DefaultSmoothness == 5
\* seasonality values tried (fixed-point: 0.0, 0.25, 0.5)
Seasonalities == {DefaultSeasonality, 250, 500}
\* change_smoothness values tried (5.0 is the default)
Smoothnesses == {1, DefaultSmoothness}

----------------------------------------------------------------------------
(* Fixed-point arithmetic *)

\* resolution of the fixed-point numbers: the noise scale 1e-3 is one unit
Scale == 1000

\* a * b for fixed-point a, b, rounded down; split so it stays in 32 bits
Mul(a, b) == (a \div Scale) * b + ((a % Scale) * b) \div Scale

\* scipy.special.expit at an integer argument, to three decimals
ExpitTable == <<731, 881, 953, 982, 993, 998, 999>>
expit(x) ==
    IF x = 0 THEN 500
    ELSE IF x > 0 THEN (IF x <= 7 THEN ExpitTable[x] ELSE Scale)
    ELSE (IF -x <= 7 THEN Scale - ExpitTable[-x] ELSE 0)

----------------------------------------------------------------------------
(* The process-wide random generator *)

LcgMul == 25173
LcgInc == 13849
LcgMod == 65536
\* a drawn word is the top 12 bits of the 16-bit state
WordDiv == 16

\* np.random.seed(seed): word state from the seed, gauss cache cleared
seed(x) == [s |-> x % LcgMod, has_gauss |-> FALSE, gauss |-> 0]

\* next word of the stream: [w, g]
NextWord(g) ==
    LET s2 == (LcgMul * g.s + LcgInc) % LcgMod
    IN  [w |-> s2 \div WordDiv, g |-> [g EXCEPT !.s = s2]]

\* smallest 2^k - 1 that is >= r
RECURSIVE GenMaskFrom(_, _)
GenMaskFrom(r, m) == IF m >= r THEN m ELSE GenMaskFrom(r, 2 * m + 1)
GenMask(r) == GenMaskFrom(r, 0)

\* one value in 0..r by masked rejection: [v, g]
RECURSIVE BoundedMasked(_, _, _)
BoundedMasked(g, r, mask) ==
    LET d == NextWord(g)
        v == d.w % (mask + 1)
    IN  IF v <= r THEN [v |-> v, g |-> d.g] ELSE BoundedMasked(d.g, r, mask)

\* cnt values in off..off+r: [vals, g]; no word is drawn when r = 0
RECURSIVE BoundedFill(_, _, _, _)
BoundedFill(g, off, r, cnt) ==
    IF cnt = 0 THEN [vals |-> <<>>, g |-> g]
    ELSE IF r = 0 THEN
        LET rest == BoundedFill(g, off, r, cnt - 1)
        IN  [vals |-> <<off>> \o rest.vals, g |-> rest.g]
    ELSE
        LET one  == BoundedMasked(g, r, GenMask(r))
            rest == BoundedFill(one.g, off, r, cnt - 1)
        IN  [vals |-> <<off + one.v>> \o rest.vals, g |-> rest.g]

\* faulty variant of randint: high is included in the range
randint_inclusive(g, low, high, cnt) ==
    IF low >= high THEN [ok |-> FALSE, vals |-> <<>>, g |-> g]
    ELSE LET f == BoundedFill(g, low, high - low, cnt)
         IN  [ok |-> TRUE, vals |-> f.vals, g |-> f.g]
\* np.random.randint(low, high, size=cnt): [ok, vals, g]
randint(g, low, high, cnt) ==
    IF low >= high THEN [ok |-> FALSE, vals |-> <<>>, g |-> g]
    ELSE LET f == BoundedFill(g, low, high - low - 1, cnt)
         IN  [ok |-> TRUE, vals |-> f.vals, g |-> f.g]

\* a double in [0, 1) from two words, as a fixed-point number
LegacyDouble(g) ==
    LET a == NextWord(g)
        b == NextWord(a.g)
        frac == (a.w \div 4) * 1024 + (b.w \div 4)
    IN  [v |-> (frac * Scale) \div 1048576, g |-> b.g]

\* sqrt(-2 ln(r2) / r2) for r2 in (0, 1), tabulated by tenth
PolarTable == <<10947, 5029, 3330, 2449, 1884, 1474, 1151, 876, 618, 329>>
PolarFactor(r2) == PolarTable[(r2 * 10) \div Scale + 1]

\* one standard normal value: [v, g]
RECURSIVE LegacyGauss(_)
LegacyGauss(g) ==
    IF g.has_gauss
    THEN [v |-> g.gauss, g |-> [g EXCEPT !.has_gauss = FALSE, !.gauss = 0]]
    ELSE
        LET d1 == LegacyDouble(g)
            d2 == LegacyDouble(d1.g)
            x1 == 2 * d1.v - Scale
            x2 == 2 * d2.v - Scale
            r2 == Mul(x1, x1) + Mul(x2, x2)
        IN  IF r2 >= Scale \/ r2 = 0 THEN LegacyGauss(d2.g)
            ELSE LET f == PolarFactor(r2)
                 IN  [v |-> Mul(f, x2),
                      g |-> [d2.g EXCEPT !.has_gauss = TRUE,
                                         !.gauss = Mul(f, x1)]]

\* np.random.randn(cnt): [vals, g]
RECURSIVE randn(_, _)
randn(g, cnt) ==
    IF cnt = 0 THEN [vals |-> <<>>, g |-> g]
    ELSE LET one  == LegacyGauss(g)
             rest == randn(one.g, cnt - 1)
         IN  [vals |-> <<one.v>> \o rest.vals, g |-> rest.g]

----------------------------------------------------------------------------
(* pandas: Series, DataFrame and column assignment *)

\* the missing timestamp a reindexed column holds where no label matches
NaT == -1

\* the p-th timestamp handed in (zero-based position), as a day number
Day(p) == 18000 + p

\* Index kinds of the pd.Series handed in as `time`: the default
\* RangeIndex, the same labels reversed, and labels shifted by one.
IndexKinds == {"range", "reversed", "shifted"}
Label(kind, n, p) ==
    IF kind = "range" THEN p
    ELSE IF kind = "reversed" THEN n - 1 - p
    ELSE p + 1

\* a pd.Series of n timestamps in input order: position p+1 holds
\* [label, val] of the p-th element
TimeSeries(n, kind) ==
    [q \in 1..n |-> [label |-> Label(kind, n, q - 1), val |-> Day(q - 1)]]

\* name of the i-th column of pd.DataFrame(array)
ColumnNames == <<"0", "1", "2", "3">>

\* pd.DataFrame(data) for data given as rows of cells
DataFrame(data, ncols) ==
    [columns |-> [j \in 1..ncols |-> ColumnNames[j]], rows |-> data]

\* the cells frame[name] = series stores: positional when the Series' index
\* equals the frame's RangeIndex, otherwise the Series reindexed on it
Reindexed(series, nrows) ==
    [q \in 1..nrows |->
        IF \A p \in 1..Len(series) : series[p].label = p - 1
        THEN series[q].val
        ELSE IF \E p \in 1..Len(series) : series[p].label = q - 1
             THEN series[CHOOSE p \in 1..Len(series) :
                             series[p].label = q - 1].val
             ELSE NaT]

\* frame[name] = series
SetColumn(frame, name, series) ==
    LET cells == Reindexed(series, Len(frame.rows))
    IN  [columns |-> Append(frame.columns, name),
         rows |-> [q \in 1..Len(frame.rows) |->
                      Append(frame.rows[q], cells[q])]]

\* kats.consts.TimeSeriesData(df): the wrapper around the frame
TimeSeriesData(df) == [kind |-> "TimeSeriesData", df |-> df]

----------------------------------------------------------------------------
(* The synthetic generators *)

Raise(err) == [kind |-> "raise", err |-> err]

\* faulty variant of gen_no_trend_data_ndim: it seeds the generator first,
\* as the trend generator does
gen_no_trend_seeded(time, ndim, g) ==
    LET n_days == Len(time)
        r == randint(seed(20), 0, 1000, ndim)
        data == [q \in 1..n_days |-> [j \in 1..ndim |-> Scale * r.vals[j]]]
        no_trend_data == SetColumn(DataFrame(data, ndim), "time", time)
    IN  [ret |-> [kind |-> "return", ts |-> TimeSeriesData(no_trend_data)],
         g |-> r.g]
\* gen_no_trend_data_ndim(time, ndim) with the generator in state g:
\* [ret, g]
gen_no_trend_data_ndim(time, ndim, g) ==
    LET n_days == Len(time)
        r == randint(g, 0, 1000, ndim)
        data == [q \in 1..n_days |-> [j \in 1..ndim |-> Scale * r.vals[j]]]
        no_trend_data == SetColumn(DataFrame(data, ndim), "time", time)
    IN  [ret |-> [kind |-> "return", ts |-> TimeSeriesData(no_trend_data)],
         g |-> r.g]

\* faulty variant of Weekend: position 5 is not a weekend
Weekend_late(t) == IF t % 7 > 5 THEN 1 ELSE 0
\* ix % 7 >= 5 as 0 or 1
Weekend(t) == IF t % 7 >= 5 THEN 1 ELSE 0

\* np.cumprod(1 + noise * z) for the fixed-point normal values z
RECURSIVE cumprod(_, _)
cumprod(noise, z) ==
    IF Len(z) = 0 THEN <<>>
    ELSE LET head == cumprod(noise, SubSeq(z, 1, Len(z) - 1))
             e == Scale + Mul(noise, z[Len(z)])
         IN  IF Len(z) = 1 THEN <<e>>
             ELSE Append(head, Mul(head[Len(head)], e))

\* the ndim rows of cumulative noise, drawn dimension after dimension:
\* [rows, g]
RECURSIVE NoiseRows(_, _, _, _)
NoiseRows(g, noise, n_days, ndim) ==
    IF ndim = 0 THEN [rows |-> <<>>, g |-> g]
    ELSE LET z == randn(g, n_days)
             rest == NoiseRows(z.g, noise, n_days, ndim - 1)
         IN  [rows |-> <<cumprod(noise, z.vals)>> \o rest.rows, g |-> rest.g]

\* int(k/10 * n_days) for k = 4 and 7.  The float products 0.4 * n and
\* 0.7 * n truncate to the exact floors for every n below 90 (0.7 * 90 is
\* the first to round below its integer), which covers every length here.
IntTenths(k, n_days) == (k * n_days) \div 10

\* faulty variant of TrendStart: the seed call is missing
TrendStart_keep(g0) == g0
\* the state the trend generator draws from: np.random.seed(20) replaces
\* whatever state g0 the process-wide generator was in
TrendStart(g0) == seed(20)

\* the random draws of one trend call, in the order the code makes them,
\* from generator state g1: [ok, initial, trend_change, trend, t_change,
\* noise (the cumulative noise rows), g]
TrendDraws(g1, n_days, ndim) ==
    LET Only(S) == CHOOSE x \in S : TRUE
    IN  Only({Only({Only({Only({
            IF ~t_change.ok
            THEN [ok |-> FALSE, g |-> trend.g]
            ELSE Only({[ok |-> TRUE,
                        initial |-> initial.vals,
                        trend_change |-> [j \in 1..ndim |-> -tc0.vals[j]],
                        trend |-> trend.vals,
                        t_change |-> t_change.vals,
                        noise |-> nz.rows,
                        g |-> nz.g]
                       : nz \in {NoiseRows(t_change.g, 1, n_days, ndim)}})
            : t_change \in {randint(trend.g, IntTenths(4, n_days),
                                    IntTenths(7, n_days), ndim)}})
            : trend \in {randint(tc0.g, 2, 6, ndim)}})
            : tc0 \in {randint(initial.g, 0, 60, ndim)}})
            : initial \in {randint(g1, 9000, 10000, ndim)}})

\* faulty variant of TrendBase: change_smoothness scales the sigmoid's
\* argument
TrendBase_smooth(initial, trend, trend_change, t_change, t, change_smoothness) ==
    (initial + trend * t) * Scale
        + (trend_change * (t - t_change))
            * expit(change_smoothness * (t - t_change))
\* initial + trend * ix + trend_change * (ix - t_change) * expit(ix -
\* t_change) at position t; change_smoothness is in scope and not used
TrendBase(initial, trend, trend_change, t_change, t, change_smoothness) ==
    (initial + trend * t) * Scale
        + (trend_change * (t - t_change)) * expit(t - t_change)

\* the factor 1 - seasonality * (ix % 7 >= 5) at position t
SeasonFactor(seasonality, t) == Scale - seasonality * Weekend(t)

\* gen_trend_data_ndim(time, seasonality, change_smoothness, ndim) with the
\* generator in state g0 when called: [ret, g]
gen_trend_data_ndim(time, seasonality, change_smoothness, ndim, g0) ==
    LET Only(S) == CHOOSE x \in S : TRUE
        n_days == Len(time)
    IN  Only({
        IF ~d.ok THEN [ret |-> Raise("ValueError"), g |-> d.g]
        ELSE
        LET data == [q \in 1..n_days |-> [j \in 1..ndim |->
                       Mul(Mul(TrendBase(d.initial[j], d.trend[j],
                                         d.trend_change[j], d.t_change[j],
                                         q - 1, change_smoothness),
                               SeasonFactor(seasonality, q - 1)),
                           d.noise[j][q])]]
            trend_data == SetColumn(DataFrame(data, ndim), "time", time)
        IN  [ret |-> [kind |-> "return", ts |-> TimeSeriesData(trend_data),
                      t_change |-> d.t_change],
             g |-> d.g]
        : d \in {TrendDraws(TrendStart(g0), n_days, ndim)}})

----------------------------------------------------------------------------
(* The resource loader and the air-passengers accessor *)

\* what the package may hold under a resource name
Absent == [kind |-> "absent"]
Malformed == [kind |-> "malformed"]
HeaderNames == <<"Month", "#Passengers", "c3", "c4", "c5">>
Csv(ncols, nrows) ==
    [kind |-> "csv",
     header |-> [c \in 1..ncols |-> HeaderNames[c]],
     rows |-> [r \in 1..nrows |-> [c \in 1..ncols |-> 100 * r + c]]]
Contents ==
    {Absent, Malformed}
        \cup {Csv(ncols, nrows) : ncols \in 1..MaxCols, nrows \in 0..MaxRows}

\* the two resource names load_data can ask for
ResourceNames == {"data/air_passengers.csv", "kats/data/air_passengers.csv"}

\* pkgutil.get_data(ROOT, resource) on the bundle b
get_data(b, resource) ==
    IF b[resource].kind = "absent" THEN Raise("FileNotFoundError")
    ELSE [kind |-> "return", bytes |-> b[resource]]

\* pd.read_csv(io.BytesIO(data_object), encoding="utf8")
read_csv(data_object) ==
    IF data_object.kind = "malformed" THEN Raise("ParserError")
    ELSE [kind |-> "return",
          df |-> [columns |-> data_object.header, rows |-> data_object.rows]]

\* faulty variant of load_data: on a missing resource it tries the other
\* path prefix
load_data_retry(file_name, c, b) ==
    LET first == get_data(b, (IF c THEN "data/" ELSE "kats/data/") \o file_name)
        second == get_data(b, (IF c THEN "kats/data/" ELSE "data/") \o file_name)
    IN  IF first.kind = "return"
        THEN [ret |-> read_csv(first.bytes), reads |-> 1]
        ELSE IF second.kind = "return"
        THEN [ret |-> read_csv(second.bytes), reads |-> 2]
        ELSE [ret |-> second, reads |-> 2]
\* load_data(file_name) in working directory c on bundle b: [ret, reads]
load_data(file_name, c, b) ==
    LET path == IF c THEN "data/" ELSE "kats/data/"
        data_object == get_data(b, path \o file_name)
    IN  IF data_object.kind = "raise" THEN [ret |-> data_object, reads |-> 1]
        ELSE [ret |-> read_csv(data_object.bytes), reads |-> 1]

\* faulty variant of SetColumns: the rename is lost
SetColumns_lost(df, names) == [kind |-> "return", df |-> df]
\* faulty variant of SetColumns: a wider frame is cut down to the names
SetColumns_lenient(df, names) ==
    IF Len(names) > Len(df.columns) THEN Raise("ValueError")
    ELSE [kind |-> "return",
          df |-> [columns |-> names,
                  rows |-> [r \in 1..Len(df.rows) |->
                               SubSeq(df.rows[r], 1, Len(names))]]]
\* df.columns = names; the number of names must be the number of columns
SetColumns(df, names) ==
    IF Len(names) # Len(df.columns) THEN Raise("ValueError")
    ELSE [kind |-> "return", df |-> [df EXCEPT !.columns = names]]

\* load_air_passengers(return_ts): [ret, loaded, reads, built] where loaded
\* is what load_data ended in and built counts the TimeSeriesData objects
\* constructed
load_air_passengers(return_ts, c, b) ==
    LET loaded == load_data("air_passengers.csv", c, b)
    IN  IF loaded.ret.kind = "raise"
        THEN [ret |-> loaded.ret, loaded |-> loaded.ret,
              reads |-> loaded.reads, built |-> 0]
        ELSE
        LET renamed == SetColumns(loaded.ret.df, <<"time", "y">>)
        IN  IF renamed.kind = "raise"
            THEN [ret |-> renamed, loaded |-> loaded.ret,
                  reads |-> loaded.reads, built |-> 0]
            ELSE IF return_ts
            THEN [ret |-> [kind |-> "return", ts |-> TimeSeriesData(renamed.df)],
                  loaded |-> loaded.ret, reads |-> loaded.reads, built |-> 1]
            ELSE [ret |-> [kind |-> "return", df |-> renamed.df],
                  loaded |-> loaded.ret, reads |-> loaded.reads, built |-> 0]

----------------------------------------------------------------------------
(* State machine: a process that calls the module's functions *)

NoCall == [op |-> "none"]

\* what a later call remembers of the call before it
Summary(rec) ==
    IF rec.op \in {"flat", "trend"}
    THEN [op |-> rec.op, n |-> Len(rec.time), ndim |-> rec.ndim]
    ELSE [op |-> rec.op]

\* generator states a fresh process may hold when the first call starts
StartStates == {[s |-> x, has_gauss |-> FALSE, gauss |-> 0] : x \in 0..MaxStart}

\* the environment the generator specifications keep fixed
DefaultBundle == [r \in ResourceNames |-> Absent]

\* memo keeps one earlier call: once set it stays
Remember == memo' \in (IF memo = NoCall THEN {NoCall, last} ELSE {memo})

CallNoTrend(n, kind, ndim, limit) ==
    /\ ncalls < limit
    /\ \E time \in {TimeSeries(n, kind)} :
       \E r \in {gen_no_trend_data_ndim(time, ndim, rng)} :
           /\ rng' = r.g
           /\ last' = [op |-> "flat", time |-> time, ndim |-> ndim,
                       ret |-> r.ret, before |-> rng, after |-> r.g,
                       pred |-> Summary(last)]
    /\ Remember
    /\ ncalls' = ncalls + 1
    /\ reads' = 0
    /\ UNCHANGED <<cwd, bundle>>

CallTrend(n, kind, seasonality, change_smoothness, ndim, limit) ==
    /\ ncalls < limit
    /\ \E time \in {TimeSeries(n, kind)} :
       \E r \in {gen_trend_data_ndim(time, seasonality, change_smoothness,
                                     ndim, rng)} :
           /\ rng' = r.g
           /\ last' = [op |-> "trend", time |-> time,
                       seasonality |-> seasonality,
                       change_smoothness |-> change_smoothness,
                       ndim |-> ndim,
                       ret |-> r.ret, before |-> rng, after |-> r.g,
                       pred |-> Summary(last)]
    /\ Remember
    /\ ncalls' = ncalls + 1
    /\ reads' = 0
    /\ UNCHANGED <<cwd, bundle>>

CallLoad(return_ts) ==
    /\ ncalls < MaxLoads
    /\ \E r \in {load_air_passengers(return_ts, cwd, bundle)} :
           /\ last' = [op |-> "load", return_ts |-> return_ts,
                       loaded |-> r.loaded, ret |-> r.ret,
                       built |-> r.built]
           /\ reads' = r.reads
    /\ Remember
    /\ ncalls' = ncalls + 1
    /\ UNCHANGED <<rng, cwd, bundle>>

\* Sequences of generator calls on short timestamp sequences with the
\* default index, seasonality left at its default.
Init ==
    /\ rng \in StartStates
    /\ last = NoCall
    /\ memo = NoCall
    /\ ncalls = 0
    /\ cwd = TRUE
    /\ bundle = DefaultBundle
    /\ reads = 0

Next ==
    \/ \E n \in 1..MaxN, ndim \in 1..MaxDim :
          CallNoTrend(n, "range", ndim, MaxCalls)
    \/ \E n \in 1..MaxN, ndim \in 1..MaxDim,
          change_smoothness \in Smoothnesses :
          CallTrend(n, "range", DefaultSeasonality, change_smoothness, ndim,
                    MaxCalls)

Spec == Init /\ [][Next]_vars

\* One generator call on a timestamp sequence of any length up to MaxLen
\* and any of the index kinds.
NextOne ==
    \/ \E n \in 1..MaxLen, kind \in IndexKinds, ndim \in 1..MaxDim :
          CallNoTrend(n, kind, ndim, 1)
    \/ \E n \in 1..MaxLen, kind \in IndexKinds, ndim \in 1..MaxDim,
          seasonality \in Seasonalities, change_smoothness \in Smoothnesses :
          CallTrend(n, kind, seasonality, change_smoothness, ndim, 1)

SpecOne == Init /\ [][NextOne]_vars

\* Calls of the accessor in every environment.
InitLoad ==
    /\ rng = seed(0)
    /\ last = NoCall
    /\ memo = NoCall
    /\ ncalls = 0
    /\ cwd \in BOOLEAN
    /\ bundle \in [ResourceNames -> Contents]
    /\ reads = 0

NextLoad == \E return_ts \in BOOLEAN : CallLoad(return_ts)

SpecLoad == InitLoad /\ [][NextLoad]_vars

----------------------------------------------------------------------------
(* Vocabulary of the properties *)

\* the frame a generator call returned
FrameOf(rec) == rec.ret.ts.df
\* the value cell of row q (1-based), dimension j, of a returned frame
Cell(rec, q, j) == FrameOf(rec).rows[q][j]
\* the "time" cell of row q of a returned generator frame
TimeCell(rec, q) == FrameOf(rec).rows[q][rec.ndim + 1]
\* the constants a flat call returned, one per dimension (first row)
Constants(rec) == [j \in 1..rec.ndim |-> Cell(rec, 1, j)]
\* the constants randint(1000, size=(1, ndim)) yields from state g
ConstantsFrom(g, ndim) ==
    [j \in 1..ndim |-> Scale * randint(g, 0, 1000, ndim).vals[j]]
SameTrendInputsButSmoothness(a, b) ==
    /\ a.op = "trend" /\ b.op = "trend"
    /\ a.time = b.time /\ a.seasonality = b.seasonality /\ a.ndim = b.ndim
SameTrendInputs(a, b) ==
    /\ SameTrendInputsButSmoothness(a, b)
    /\ a.change_smoothness = b.change_smoothness

----------------------------------------------------------------------------
(* Properties *)

\* C1: the trend generator is deterministic: whatever state the
\* process-wide generator is in when each call starts, two trend calls with
\* the same timestamps, seasonality, change_smoothness and ndim end the
\* same way, with identical frames and identical change-point lists.
C1_TrendDeterministic ==
    SameTrendInputs(memo, last) => memo.ret = last.ret

\* two returning trend calls with the same inputs, started from different
\* generator states
C1_Witness ==
    /\ SameTrendInputs(memo, last)
    /\ last.ret.kind = "return"
    /\ memo.before # last.before
    /\ last.ndim = 2

\* C2 as stated: for every n > 0 and ndim > 0 the trend generator returns
\* exactly ndim change points c with floor(0.4 n) <= c < floor(0.7 n).
C2_Original ==
    last.op = "trend" =>
        /\ last.ret.kind = "return"
        /\ Len(last.ret.t_change) = last.ndim
        /\ \A j \in 1..last.ndim :
              /\ (4 * Len(last.time)) \div 10 <= last.ret.t_change[j]
              /\ last.ret.t_change[j] < (7 * Len(last.time)) \div 10

\* C2 amended: for every n >= 2 and ndim > 0 the trend generator returns
\* exactly ndim change points c with floor(0.4 n) <= c < floor(0.7 n); for
\* n = 1 the range is empty and the call raises ValueError.
C2_ChangePointsInRange ==
    last.op = "trend" =>
        IF Len(last.time) >= 2
        THEN /\ last.ret.kind = "return"
             /\ Len(last.ret.t_change) = last.ndim
             /\ \A j \in 1..last.ndim :
                   /\ (4 * Len(last.time)) \div 10 <= last.ret.t_change[j]
                   /\ last.ret.t_change[j] < (7 * Len(last.time)) \div 10
        ELSE last.ret = Raise("ValueError")

\* a trend call on ten timestamps whose two change points differ, one of
\* them above the lower end of the range
C2_Witness ==
    /\ last.op = "trend"
    /\ Len(last.time) = 10
    /\ last.ndim = 2
    /\ last.ret.kind = "return"
    /\ last.ret.t_change[1] # last.ret.t_change[2]

\* C3 as stated: for every timestamp sequence of length n > 0 and every
\* ndim > 0 the flat generator returns n rows with exactly ndim value
\* columns plus a "time" column holding the input timestamps in input
\* order; each value column is constant and its value is an integer in
\* [0, 1000).
C3_Original ==
    last.op = "flat" =>
        /\ last.ret.kind = "return"
        /\ Len(FrameOf(last).rows) = Len(last.time)
        /\ Len(FrameOf(last).columns) = last.ndim + 1
        /\ FrameOf(last).columns[last.ndim + 1] = "time"
        /\ \A q \in 1..Len(last.time) :
              /\ Len(FrameOf(last).rows[q]) = last.ndim + 1
              /\ TimeCell(last, q) = last.time[q].val
              /\ \A j \in 1..last.ndim :
                    /\ Cell(last, q, j) = Cell(last, 1, j)
                    /\ Cell(last, q, j) % Scale = 0
                    /\ 0 <= Cell(last, q, j)
                    /\ Cell(last, q, j) < 1000 * Scale

\* the frame an accessor call returned, bare or wrapped
LoadedFrame(rec) ==
    IF rec.return_ts THEN rec.ret.ts.df ELSE rec.ret.df

\* C4: the accessor returns the wrapped object when the flag is true and
\* the bare frame when it is false; either way the frame's columns are
\* exactly "time", "y" and its rows are the loaded rows, so the frame
\* returned with the flag false equals the frame wrapped with it true.
C4_AccessorShapes ==
    /\ (last.op = "load" /\ last.ret.kind = "return") =>
          /\ last.return_ts =>
                DOMAIN last.ret = {"kind", "ts"}
                    /\ last.ret.ts = TimeSeriesData(last.ret.ts.df)
          /\ ~last.return_ts => DOMAIN last.ret = {"kind", "df"}
          /\ LoadedFrame(last).columns = <<"time", "y">>
          /\ LoadedFrame(last).rows = last.loaded.df.rows
    /\ (/\ last.op = "load" /\ last.ret.kind = "return"
        /\ memo.op = "load" /\ memo.return_ts # last.return_ts) =>
          /\ memo.ret.kind = "return"
          /\ LoadedFrame(memo) = LoadedFrame(last)

\* the accessor called with the flag true and then with it false, on a
\* resource with rows
C4_Witness ==
    /\ last.op = "load" /\ memo.op = "load"
    /\ memo.return_ts /\ ~last.return_ts
    /\ last.ret.kind = "return"
    /\ Len(last.ret.df.rows) = 2

\* the content of the resource load_data asks for
Requested ==
    bundle[(IF cwd THEN "data/" ELSE "kats/data/") \o "air_passengers.csv"]

\* C5: when the resource asked for is absent the loader ends in
\* FileNotFoundError, when its content is malformed in ParserError; either
\* way the resource is read at most once, no frame is returned, the
\* accessor ends in the same error and constructs no time-series object.
C5_LoaderFailures ==
    last.op = "load" =>
        /\ Requested.kind = "absent" =>
              /\ last.loaded = Raise("FileNotFoundError")
              /\ last.ret = last.loaded
              /\ last.built = 0
              /\ reads <= 1
        /\ Requested.kind = "malformed" =>
              /\ last.loaded = Raise("ParserError")
              /\ last.ret = last.loaded
              /\ last.built = 0
              /\ reads <= 1

\* an accessor call on an absent resource while the other resource path
\* holds a well-formed file, after a call on the same environment
C5_Witness ==
    /\ last.op = "load" /\ memo.op = "load"
    /\ Requested.kind = "absent"
    /\ \E r \in ResourceNames : bundle[r].kind = "csv"
    /\ last.return_ts
    /\ reads = 1

\* C6: when the loaded resource has a number of columns other than 2 the
\* accessor fails at the rename (ValueError) and returns neither a frame
\* nor a time-series object, whatever its flag.
C6_RenameFails ==
    (/\ last.op = "load"
     /\ last.loaded.kind = "return"
     /\ Len(last.loaded.df.columns) # 2) =>
        /\ last.ret = Raise("ValueError")
        /\ last.built = 0

\* the flag-true call on a three-column resource after the flag-false call
C6_Witness ==
    /\ last.op = "load" /\ memo.op = "load"
    /\ last.return_ts /\ ~memo.return_ts
    /\ last.loaded.kind = "return"
    /\ Len(last.loaded.df.columns) = 3
    /\ last.ret.kind = "raise" /\ memo.ret.kind = "raise"

\* C7: the flat generator never resets the generator: its constants are
\* the next ndim draws of the ambient stream and the stream is left
\* advanced, so its result depends on the state it finds; the trend
\* generator resets the stream first, so its outcome and the state it
\* leaves are those of a call started from the freshly seeded state.
C7_AmbientStream ==
    /\ last.op = "flat" =>
          /\ Constants(last) = ConstantsFrom(last.before, last.ndim)
          /\ last.after = randint(last.before, 0, 1000, last.ndim).g
          /\ last.after # last.before
          /\ rng = last.after
    /\ last.op = "trend" =>
          /\ [ret |-> last.ret, g |-> last.after]
                = gen_trend_data_ndim(last.time, last.seasonality,
                                      last.change_smoothness, last.ndim,
                                      seed(20))
          /\ rng = last.after

\* two consecutive flat calls with the same inputs that return different
\* constants
C7_Witness ==
    /\ memo.op = "flat" /\ last.op = "flat"
    /\ memo.time = last.time /\ memo.ndim = last.ndim
    /\ memo.after = last.before
    /\ last.pred.op = "flat"
    /\ Constants(memo) # Constants(last)

\* the draws behind the returned frame of a trend record
DrawsOf(rec) == TrendDraws(seed(20), Len(rec.time), rec.ndim)

\* C8: the seasonality factor multiplies a value by (1 - seasonality)
\* exactly at the zero-based positions t with t mod 7 >= 5 and leaves every
\* other position as computed without the weekend term; with seasonality 0
\* the whole output is the output computed without the term.
C8_SeasonalityFactor ==
    (last.op = "trend" /\ last.ret.kind = "return") =>
        \A q \in 1..Len(last.time), j \in 1..last.ndim :
            LET d == DrawsOf(last)
                base == TrendBase(d.initial[j], d.trend[j], d.trend_change[j],
                                  d.t_change[j], q - 1, last.change_smoothness)
                plain == Mul(base, d.noise[j][q])
            IN  /\ (q - 1) % 7 \in {5, 6} =>
                      Cell(last, q, j)
                          = Mul(Mul(base, Scale - last.seasonality),
                                d.noise[j][q])
                /\ ((q - 1) % 7 \notin {5, 6} \/ last.seasonality = 0) =>
                      Cell(last, q, j) = plain

\* a trend call with seasonality 0.5 on ten timestamps: positions 5 and 6
\* are damped below the plain value, position 7 is not
C8_Witness ==
    /\ last.op = "trend" /\ last.ret.kind = "return"
    /\ Len(last.time) = 10 /\ last.seasonality = 500
    /\ LET d == DrawsOf(last)
           Plain(q) == Mul(TrendBase(d.initial[1], d.trend[1],
                                     d.trend_change[1], d.t_change[1], q - 1,
                                     last.change_smoothness),
                           d.noise[1][q])
       IN  /\ Cell(last, 6, 1) < Plain(6)
           /\ Cell(last, 7, 1) < Plain(7)
           /\ Cell(last, 8, 1) = Plain(8)

\* C9: change_smoothness has no influence: two trend calls that differ at
\* most in change_smoothness end the same way, with the same frame and
\* change points, and leave the generator in the same state.
C9_SmoothnessUnused ==
    SameTrendInputsButSmoothness(memo, last) =>
        /\ memo.ret = last.ret
        /\ memo.after = last.after

\* two returning trend calls that differ in change_smoothness only
C9_Witness ==
    /\ SameTrendInputsButSmoothness(memo, last)
    /\ memo.change_smoothness # last.change_smoothness
    /\ last.ret.kind = "return"
    /\ Len(last.time) = 3

\* the state a trend call on n timestamps and ndim dimensions leaves when
\* the process starts it from word state 0
TrendLeaves(n, ndim) ==
    gen_trend_data_ndim(TimeSeries(n, "range"), DefaultSeasonality,
                        DefaultSmoothness, ndim, seed(0)).g

\* C10: the state a trend call leaves depends on its n and ndim only, not
\* on the state it found (which it does not restore), so a flat call made
\* immediately after a trend call with given (n, ndim) returns the
\* constants fixed by (n, ndim) and its own ndim.
C10_TrendLeavesFixedState ==
    /\ (/\ memo.op = "trend" /\ last.op = "trend"
        /\ Len(memo.time) = Len(last.time) /\ memo.ndim = last.ndim) =>
          memo.after = last.after
    /\ last.op = "trend" => last.after = TrendLeaves(Len(last.time), last.ndim)
    /\ (last.op = "flat" /\ last.pred.op = "trend") =>
          Constants(last)
              = ConstantsFrom(TrendLeaves(last.pred.n, last.pred.ndim),
                              last.ndim)

\* a flat call right after a trend call that moved the generator, whose
\* constants differ from those it would have returned had the trend call
\* not happened
C10_Witness ==
    /\ last.op = "flat" /\ memo.op = "trend"
    /\ last.pred.op = "trend"
    /\ memo.after = last.before
    /\ memo.after # memo.before
    /\ Constants(last) # ConstantsFrom(memo.before, last.ndim)

====
